---- MODULE Spec2Model ----
(***************************************************************************)
(* bevy_quick_response: the mode-to-policy mapping of QuickResponsePlugin  *)
(* (src/src/lib.rs).  Two specifications share the definitions below:      *)
(*   SpecCfg  a caller constructing and modifying a plugin value and       *)
(*            asking it for its window configuration;                      *)
(*   Spec     an application on which callers register subsystems, build() *)
(*            is run, and the Startup schedule is executed.                *)
(* Frame rates are f64 in the source; the model draws them from a small    *)
(* set of positive whole rates.  A Duration is [secs, nanos] as in std.    *)
(***************************************************************************)
EXTENDS Integers, Sequences, FiniteSets, TLC

\* ---------------------------------------------------------------- bounds
MaxFpsIdx == 2
MaxBuilds == 2

FpsValues == {60 * k : k \in 1..MaxFpsIdx}

\* ------------------------------------------------------------ data model
OSes == {"windows", "macos", "linux", "other"}

QuickResponseParameters ==
    [base_fps : FpsValues, max_fps : FpsValues, auto_init_default_plugins : BOOLEAN]

QuickResponseParametersWithNoBaseFps ==
    [max_fps : FpsValues, auto_init_default_plugins : BOOLEAN]

FastVsync(params)   == [tag |-> "FastVsync",   params |-> params]
Immediate(params)   == [tag |-> "Immediate",   params |-> params]
AutoNoVsync(params) == [tag |-> "AutoNoVsync", params |-> params]
PowerSaving(params) == [tag |-> "PowerSaving", params |-> params]
None(b)             == [tag |-> "None",        enabled |-> b]

QuickResponseMode ==
    {FastVsync(p)   : p \in QuickResponseParameters} \cup
    {Immediate(p)   : p \in QuickResponseParameters} \cup
    {AutoNoVsync(p) : p \in QuickResponseParameters} \cup
    {PowerSaving(p) : p \in QuickResponseParametersWithNoBaseFps} \cup
    {None(b)        : b \in BOOLEAN}

QuickResponsePlugin ==
    [mode : QuickResponseMode, no_framepace_for_test : BOOLEAN]

QuickResponseParameters_default ==
    [base_fps |-> 60, max_fps |-> 120, auto_init_default_plugins |-> TRUE]

QuickResponseMode_default == FastVsync(QuickResponseParameters_default)

\* ---------------------------------------------------------- constructors
new(mode) == [mode |-> mode, no_framepace_for_test |-> FALSE]

power_saving(max_fps) ==
    new(PowerSaving([max_fps |-> max_fps, auto_init_default_plugins |-> TRUE]))

fast_vsync(base_fps, max_fps) ==
    new(FastVsync([base_fps |-> base_fps, max_fps |-> max_fps,
                   auto_init_default_plugins |-> TRUE]))

\* a slip that stores the two rates the wrong way round
immediate_swapped(base_fps, max_fps) ==
    new(Immediate([base_fps |-> max_fps, max_fps |-> base_fps,
                   auto_init_default_plugins |-> TRUE]))

immediate(base_fps, max_fps) ==
    new(Immediate([base_fps |-> base_fps, max_fps |-> max_fps,
                   auto_init_default_plugins |-> TRUE]))

auto_no_vsync(base_fps, max_fps) ==
    new(AutoNoVsync([base_fps |-> base_fps, max_fps |-> max_fps,
                     auto_init_default_plugins |-> TRUE]))

none(should_default_plugins_enabled) == new(None(should_default_plugins_enabled))

QuickResponsePlugin_default == new(QuickResponseMode_default)

\* ------------------------------------------------------------- modifiers
with_no_framepace_for_test(self) ==
    [mode |-> self.mode, no_framepace_for_test |-> TRUE]

\* a slip that flips the field instead of clearing it
with_no_default_plugins_toggle(self) ==
    IF self.mode.tag = "None"
    THEN none(~self.mode.enabled)
    ELSE new([self.mode EXCEPT !.params.auto_init_default_plugins = ~@])

\* a slip that copies the FastVsync arm into the Immediate arm unchanged
with_no_default_plugins_pasted(self) ==
    CASE self.mode.tag = "None" -> none(FALSE)
      [] self.mode.tag \in {"FastVsync", "Immediate"} ->
            new(FastVsync([self.mode.params EXCEPT !.auto_init_default_plugins = FALSE]))
      [] self.mode.tag = "AutoNoVsync" ->
            new(AutoNoVsync([self.mode.params EXCEPT !.auto_init_default_plugins = FALSE]))
      [] self.mode.tag = "PowerSaving" ->
            new(PowerSaving([self.mode.params EXCEPT !.auto_init_default_plugins = FALSE]))

with_no_default_plugins(self) ==
    CASE self.mode.tag = "None" -> none(FALSE)
      [] self.mode.tag = "FastVsync" ->
            new(FastVsync([self.mode.params EXCEPT !.auto_init_default_plugins = FALSE]))
      [] self.mode.tag = "Immediate" ->
            new(Immediate([self.mode.params EXCEPT !.auto_init_default_plugins = FALSE]))
      [] self.mode.tag = "AutoNoVsync" ->
            new(AutoNoVsync([self.mode.params EXCEPT !.auto_init_default_plugins = FALSE]))
      [] self.mode.tag = "PowerSaving" ->
            new(PowerSaving([self.mode.params EXCEPT !.auto_init_default_plugins = FALSE]))

\* --------------------------------------------------- window configuration
\* Window { present_mode, ..default() } inside WindowPlugin { primary_window, ..default() }
Window(present_mode) == [primary_window |-> [present_mode |-> present_mode]]

WindowPlugin_default == Window("Default")

\* the four #[cfg(target_os = ...)] alternatives of the FastVsync and PowerSaving arms
cfg_present_mode(os) ==
    CASE os = "windows" -> "Mailbox"
      [] os = "macos"   -> "AutoNoVsync"
      [] os = "linux"   -> "Mailbox"
      [] OTHER          -> "AutoNoVsync"

\* a slip that leaves the macOS substitution out of the PowerSaving arm
window_plugin_no_metal(self, os) ==
    CASE self.mode.tag = "FastVsync"   -> Window(cfg_present_mode(os))
      [] self.mode.tag = "Immediate"   -> Window("Immediate")
      [] self.mode.tag = "AutoNoVsync" -> Window("AutoNoVsync")
      [] self.mode.tag = "PowerSaving" -> Window("Mailbox")
      [] self.mode.tag = "None"        -> WindowPlugin_default

window_plugin(self, os) ==
    CASE self.mode.tag = "FastVsync"   -> Window(cfg_present_mode(os))
      [] self.mode.tag = "Immediate"   -> Window("Immediate")
      [] self.mode.tag = "AutoNoVsync" -> Window("AutoNoVsync")
      [] self.mode.tag = "PowerSaving" -> Window(cfg_present_mode(os))
      [] self.mode.tag = "None"        -> WindowPlugin_default

\* ------------------------------------------------------ host collaborators
\* Duration::from_secs_f64(num / den) for 0 < num <= 2: whole seconds and the
\* nanosecond remainder, rounded to the nearest nanosecond
Duration_from_secs_f64(num, den) ==
    LET scaled == (num % den) * 1000000000
        q      == scaled \div den
        r      == scaled % den
        n      == IF 2 * r >= den THEN q + 1 ELSE q
    IN  IF n = 1000000000
        THEN [secs |-> (num \div den) + 1, nanos |-> 0]
        ELSE [secs |-> num \div den, nanos |-> n]

ReactiveLowPower(wait) == [kind |-> "ReactiveLowPower", wait |-> wait]
Reactive(wait)         == [kind |-> "Reactive",         wait |-> wait]

WinitSettings(focused_mode, unfocused_mode) ==
    [present |-> TRUE, focused_mode |-> focused_mode, unfocused_mode |-> unfocused_mode]

\* the host's desktop-application preset
WinitSettings_desktop_app ==
    WinitSettings(Reactive([secs |-> 5, nanos |-> 0]),
                  ReactiveLowPower([secs |-> 60, nanos |-> 0]))

NoWinitSettings ==
    [present |-> FALSE, focused_mode |-> Reactive([secs |-> 0, nanos |-> 0]),
     unfocused_mode |-> Reactive([secs |-> 0, nanos |-> 0])]

Limiter_Auto == [kind |-> "Auto", frametime |-> [secs |-> 0, nanos |-> 0]]

Limiter_from_framerate(fps) ==
    [kind |-> "Manual", frametime |-> Duration_from_secs_f64(1, fps)]

\* FramepaceSettings, present in the application once FramepacePlugin is registered
NoFramepaceSettings      == [present |-> FALSE, limiter |-> Limiter_Auto]
FramepaceSettings_default == [present |-> TRUE,  limiter |-> Limiter_Auto]

\* App::new(): nothing inserted, nothing registered.  plugins counts the
\* add_plugins calls per subsystem; window is the configuration the window
\* subsystem of the latest DefaultPlugins installation was given.
App_new ==
    [winit_settings     |-> NoWinitSettings,
     plugins            |-> [DefaultPlugins |-> 0, FramepacePlugin |-> 0],
     window             |-> WindowPlugin_default,
     framepace_settings |-> NoFramepaceSettings,
     startup            |-> <<>>]

\* The operations build() performs on the application.  c is the application
\* together with the record of the current call: the trace of the operations
\* performed on the application, the parameter matches control has reached, and
\* whether an unreachable!() arm was taken.
Call(a) == [app |-> a, trace |-> <<>>, reached |-> {}, unreachable |-> FALSE]

insert_resource(c, settings) ==
    [c EXCEPT !.app.winit_settings = settings,
              !.trace = Append(@, "insert_resource(WinitSettings)")]

add_plugins_DefaultPlugins(c, window) ==
    [c EXCEPT !.app.plugins.DefaultPlugins = @ + 1,
              !.app.window = window,
              !.trace = Append(@, "add_plugins(DefaultPlugins)")]

add_plugins_FramepacePlugin(c) ==
    [c EXCEPT !.app.plugins.FramepacePlugin = @ + 1,
              !.app.framepace_settings = FramepaceSettings_default,
              !.trace = Append(@, "add_plugins(FramepacePlugin)")]

is_plugin_added_FramepacePlugin(a) == a.plugins.FramepacePlugin > 0

\* setup_fps(max_fps): the closure, holding the rate it was created with
setup_fps(max_fps) == [system |-> "setup_fps", max_fps |-> max_fps]

add_systems_Startup(c, system) ==
    [c EXCEPT !.app.startup = Append(@, system),
              !.trace = Append(@, "add_systems(Startup)")]

\* ----------------------------------------------------------------- build
is_base_fps_enabled(mode) ==
    CASE mode.tag = "FastVsync"   -> TRUE
      [] mode.tag = "Immediate"   -> TRUE
      [] mode.tag = "AutoNoVsync" -> TRUE
      [] mode.tag = "PowerSaving" -> FALSE
      [] mode.tag = "None"        -> FALSE

is_power_saving_enabled(mode) ==
    CASE mode.tag = "FastVsync"   -> FALSE
      [] mode.tag = "Immediate"   -> FALSE
      [] mode.tag = "AutoNoVsync" -> FALSE
      [] mode.tag = "PowerSaving" -> TRUE
      [] mode.tag = "None"        -> FALSE

\* let base_fps = match self.mode { .. }: the value, or the unreachable!() arm
match_base_fps(mode) ==
    CASE mode.tag = "FastVsync"   -> [unreachable |-> FALSE, value |-> mode.params.base_fps]
      [] mode.tag = "AutoNoVsync" -> [unreachable |-> FALSE, value |-> mode.params.base_fps]
      [] mode.tag = "Immediate"   -> [unreachable |-> FALSE, value |-> mode.params.base_fps]
      [] mode.tag = "PowerSaving" -> [unreachable |-> TRUE,  value |-> 0]
      [] mode.tag = "None"        -> [unreachable |-> TRUE,  value |-> 0]

\* let max_fps = match self.mode { .. }
match_max_fps(mode) ==
    CASE mode.tag = "FastVsync"   -> [unreachable |-> FALSE, value |-> mode.params.max_fps]
      [] mode.tag = "AutoNoVsync" -> [unreachable |-> FALSE, value |-> mode.params.max_fps]
      [] mode.tag = "Immediate"   -> [unreachable |-> FALSE, value |-> mode.params.max_fps]
      [] mode.tag = "PowerSaving" -> [unreachable |-> FALSE, value |-> mode.params.max_fps]
      [] mode.tag = "None"        -> [unreachable |-> TRUE,  value |-> 0]

\* let auto_init_default_plugins = match self.mode { .. }
match_auto_init_default_plugins(mode) ==
    CASE mode.tag = "FastVsync"   ->
            [unreachable |-> FALSE, value |-> mode.params.auto_init_default_plugins]
      [] mode.tag = "AutoNoVsync" ->
            [unreachable |-> FALSE, value |-> mode.params.auto_init_default_plugins]
      [] mode.tag = "Immediate"   ->
            [unreachable |-> FALSE, value |-> mode.params.auto_init_default_plugins]
      [] mode.tag = "PowerSaving" ->
            [unreachable |-> FALSE, value |-> mode.params.auto_init_default_plugins]
      [] mode.tag = "None"        -> [unreachable |-> TRUE, value |-> FALSE]

\* control arrives at a match: it is recorded, and an unreachable!() arm ends the call
reach(c, name, m) ==
    [c EXCEPT !.reached = @ \cup {name}, !.unreachable = @ \/ m.unreachable]

\* a slip that derives the wait interval from max_fps
build_winit_max(self, c) ==
    IF is_base_fps_enabled(self.mode)
    THEN LET wait == Duration_from_secs_f64(1, self.mode.params.max_fps)
         IN  insert_resource(c, WinitSettings(ReactiveLowPower(wait), ReactiveLowPower(wait)))
    ELSE IF is_power_saving_enabled(self.mode)
         THEN insert_resource(c, WinitSettings_desktop_app)
         ELSE c

\* lines 262-282: the event-loop settings
build_winit(self, c) ==
    IF is_base_fps_enabled(self.mode)
    THEN LET base_fps == match_base_fps(self.mode)
             c1       == reach(c, "base_fps", base_fps)
             wait     == Duration_from_secs_f64(1, base_fps.value)
         IN  IF c1.unreachable
             THEN c1
             ELSE insert_resource(c1, WinitSettings(ReactiveLowPower(wait),
                                                    ReactiveLowPower(wait)))
    ELSE IF is_power_saving_enabled(self.mode)
         THEN insert_resource(c, WinitSettings_desktop_app)
         ELSE c

\* lines 284-298: max_fps and auto_init_default_plugins are taken out of the mode
build_params(self, c) ==
    IF c.unreachable
    THEN c
    ELSE LET c1 == reach(c, "max_fps", match_max_fps(self.mode))
         IN  IF c1.unreachable
             THEN c1
             ELSE reach(c1, "auto_init_default_plugins",
                        match_auto_init_default_plugins(self.mode))

\* a slip that installs the defaults without the window configuration
build_defaults_unset(self, c, os) ==
    IF self.mode.params.auto_init_default_plugins
    THEN add_plugins_DefaultPlugins(c, WindowPlugin_default)
    ELSE c

\* lines 300-308: the host default subsystems (add_plugins(()) adds nothing)
build_defaults(self, c, os) ==
    IF c.unreachable
    THEN c
    ELSE LET auto_init_default_plugins == match_auto_init_default_plugins(self.mode).value
         IN  IF auto_init_default_plugins
             THEN add_plugins_DefaultPlugins(c, window_plugin(self, os))
             ELSE c

\* a slip that drops the is_plugin_added check
build_framepace_unchecked(self, c) ==
    IF ~self.no_framepace_for_test
    THEN add_systems_Startup(add_plugins_FramepacePlugin(c),
                             setup_fps(self.mode.params.max_fps))
    ELSE c

\* a slip that registers the startup system outside the test-flag check
build_framepace_hook_always(self, c) ==
    LET max_fps == self.mode.params.max_fps
        c1 == IF ~self.no_framepace_for_test /\ ~is_plugin_added_FramepacePlugin(c.app)
              THEN add_plugins_FramepacePlugin(c)
              ELSE c
    IN  add_systems_Startup(c1, setup_fps(max_fps))

\* a slip that hands base_fps (max_fps for PowerSaving) to setup_fps
build_framepace_base(self, c) ==
    IF ~self.no_framepace_for_test
    THEN LET fps == IF is_base_fps_enabled(self.mode)
                    THEN self.mode.params.base_fps
                    ELSE self.mode.params.max_fps
             c1  == IF ~is_plugin_added_FramepacePlugin(c.app)
                    THEN add_plugins_FramepacePlugin(c)
                    ELSE c
         IN  add_systems_Startup(c1, setup_fps(fps))
    ELSE c

\* lines 310-315: the limiter subsystem and its startup system
build_framepace(self, c) ==
    IF c.unreachable
    THEN c
    ELSE LET max_fps == match_max_fps(self.mode).value
         IN  IF ~self.no_framepace_for_test
             THEN LET c1 == IF ~is_plugin_added_FramepacePlugin(c.app)
                            THEN add_plugins_FramepacePlugin(c)
                            ELSE c
                  IN  add_systems_Startup(c1, setup_fps(max_fps))
             ELSE c

\* a slip that installs the defaults before the event-loop settings
build_defaults_first(self, c, os) ==
    IF self.mode = None(FALSE) THEN c
    ELSE IF self.mode = None(TRUE) THEN add_plugins_DefaultPlugins(c, WindowPlugin_default)
    ELSE build_framepace(self,
            build_winit(self, build_defaults(self, build_params(self, c), os)))

\* a slip that lets None(_) engage the limiter subsystem
build_none_engaged(self, c, os) ==
    IF self.mode.tag = "None"
    THEN LET c1 == IF self.mode.enabled
                   THEN add_plugins_DefaultPlugins(c, WindowPlugin_default)
                   ELSE c
         IN  IF ~self.no_framepace_for_test /\ ~is_plugin_added_FramepacePlugin(c1.app)
             THEN add_plugins_FramepacePlugin(c1)
             ELSE c1
    ELSE build_framepace(self,
            build_defaults(self, build_params(self, build_winit(self, c)), os))

\* a slip that confuses the two None arms
build_none_swapped(self, c, os) ==
    IF self.mode = None(TRUE) THEN c
    ELSE IF self.mode = None(FALSE) THEN add_plugins_DefaultPlugins(c, WindowPlugin_default)
    ELSE build_framepace(self,
            build_defaults(self, build_params(self, build_winit(self, c)), os))

\* a slip that leaves the return out of the None(true) arm
build_none_fallthrough(self, c, os) ==
    IF self.mode = None(FALSE) THEN c
    ELSE LET c0 == IF self.mode = None(TRUE)
                   THEN add_plugins_DefaultPlugins(c, WindowPlugin_default)
                   ELSE c
         IN  build_framepace(self,
                 build_defaults(self, build_params(self, build_winit(self, c0)), os))

\* <QuickResponsePlugin as Plugin>::build
build(self, c, os) ==
    IF self.mode = None(FALSE) THEN c
    ELSE IF self.mode = None(TRUE) THEN add_plugins_DefaultPlugins(c, WindowPlugin_default)
    ELSE build_framepace(self,
            build_defaults(self, build_params(self, build_winit(self, c)), os))

\* ------------------------------------------------------------------ state
VARIABLES
    target_os,   \* the OS the crate is compiled for
    pl,          \* the plugin value the caller holds
    op,          \* the last call the caller made to obtain or inspect a plugin value
    recv,        \* the receiver of that call (for a constructor, the value held before)
    args,        \* the arguments of that call
    window_pl,   \* the result of the last window_plugin() call
    app,         \* the application under construction
    last,        \* the last build(): its plugin, the operations it performed in order,
                 \* whether FramepacePlugin was registered when it began, the
                 \* parameter matches it reached and whether it hit unreachable!()
    nbuilds,     \* number of build() calls so far
    engaged,     \* number of build() calls with a non-None mode and a clear test flag
    started,     \* the Startup schedule has run
    panicked,    \* a startup system found no FramepaceSettings in the application
    writes       \* number of writes of FramepaceSettings.limiter by setup_fps

cfgvars == <<pl, op, recv, args, window_pl>>
appvars == <<app, last, nbuilds, engaged, started, panicked, writes>>
vars == <<target_os, pl, op, recv, args, window_pl,
          app, last, nbuilds, engaged, started, panicked, writes>>

NoWindowPlugin == Window("NotCalled")

Init ==
    /\ target_os \in OSes
    /\ pl = QuickResponsePlugin_default
    /\ op = "default"
    /\ recv = QuickResponsePlugin_default
    /\ args = <<>>
    /\ window_pl = NoWindowPlugin
    /\ app = App_new
    /\ last = [built |-> FALSE, self |-> QuickResponsePlugin_default,
               trace |-> <<>>, framepace_before |-> FALSE,
               reached |-> {}, unreachable |-> FALSE]
    /\ nbuilds = 0
    /\ engaged = 0
    /\ started = FALSE
    /\ panicked = FALSE
    /\ writes = 0

\* ------------------------------------------------- the caller and its plugin
Constructed(name, a, value) ==
    /\ pl' = value
    /\ op' = name
    /\ recv' = pl
    /\ args' = a
    /\ UNCHANGED <<target_os, window_pl>>
    /\ UNCHANGED appvars

CallDefault == Constructed("default", <<>>, QuickResponsePlugin_default)

CallNew == \E mode \in QuickResponseMode : Constructed("new", <<mode>>, new(mode))

CallPowerSaving ==
    \E max_fps \in FpsValues :
        Constructed("power_saving", <<max_fps>>, power_saving(max_fps))

CallFastVsync ==
    \E base_fps \in FpsValues, max_fps \in FpsValues :
        Constructed("fast_vsync", <<base_fps, max_fps>>, fast_vsync(base_fps, max_fps))

CallImmediate ==
    \E base_fps \in FpsValues, max_fps \in FpsValues :
        Constructed("immediate", <<base_fps, max_fps>>, immediate(base_fps, max_fps))

CallAutoNoVsync ==
    \E base_fps \in FpsValues, max_fps \in FpsValues :
        Constructed("auto_no_vsync", <<base_fps, max_fps>>, auto_no_vsync(base_fps, max_fps))

CallNone == \E b \in BOOLEAN : Constructed("none", <<b>>, none(b))

\* pl = pl.with_no_framepace_for_test()
CallWithNoFramepaceForTest ==
    Constructed("with_no_framepace_for_test", <<>>, with_no_framepace_for_test(pl))

\* pl = pl.with_no_default_plugins()
CallWithNoDefaultPlugins ==
    Constructed("with_no_default_plugins", <<>>, with_no_default_plugins(pl))

\* window_pl = pl.window_plugin()
CallWindowPlugin ==
    /\ window_pl' = window_plugin(pl, target_os)
    /\ op' = "window_plugin"
    /\ recv' = pl
    /\ args' = <<>>
    /\ UNCHANGED <<target_os, pl>>
    /\ UNCHANGED appvars

NextCfg ==
    \/ CallDefault
    \/ CallNew
    \/ CallPowerSaving
    \/ CallFastVsync
    \/ CallImmediate
    \/ CallAutoNoVsync
    \/ CallNone
    \/ CallWithNoFramepaceForTest
    \/ CallWithNoDefaultPlugins
    \/ CallWindowPlugin

SpecCfg == Init /\ [][NextCfg]_vars

\* ------------------------------------------------------------ the application
\* the caller installs the host defaults itself, with a window configuration
\* obtained from a plugin value (examples/advanced.rs)
CallerAddDefaultPlugins ==
    /\ ~started
    /\ nbuilds = 0
    /\ app.plugins.DefaultPlugins = 0
    /\ \E p \in QuickResponsePlugin :
          app' = add_plugins_DefaultPlugins(Call(app),
                                            window_plugin(p, target_os)).app
    /\ UNCHANGED <<last, nbuilds, engaged, started, panicked, writes, target_os>>
    /\ UNCHANGED cfgvars

\* the caller registers the limiter subsystem itself before the plugin is built
CallerAddFramepacePlugin ==
    /\ ~started
    /\ nbuilds = 0
    /\ ~is_plugin_added_FramepacePlugin(app)
    /\ app' = add_plugins_FramepacePlugin(Call(app)).app
    /\ UNCHANGED <<last, nbuilds, engaged, started, panicked, writes, target_os>>
    /\ UNCHANGED cfgvars

\* plugin.build(&mut app)
Build(self) ==
    /\ ~started
    /\ ~last.unreachable
    /\ nbuilds < MaxBuilds
    /\ LET c == build(self, Call(app), target_os)
       IN  /\ app' = c.app
           /\ last' = [built |-> TRUE, self |-> self, trace |-> c.trace,
                       framepace_before |-> is_plugin_added_FramepacePlugin(app),
                       reached |-> c.reached, unreachable |-> c.unreachable]
    /\ nbuilds' = nbuilds + 1
    /\ engaged' = IF self.mode.tag # "None" /\ ~self.no_framepace_for_test
                  THEN engaged + 1 ELSE engaged
    /\ UNCHANGED <<started, panicked, writes, target_os>>
    /\ UNCHANGED cfgvars

\* The Startup schedule runs once.  The startup systems are not ordered among
\* themselves, so any of them may be the one that runs last; each one writes
\* FramepaceSettings.limiter, and fails when the resource does not exist.
RunStartup ==
    /\ ~started
    /\ ~last.unreachable
    /\ started' = TRUE
    /\ LET n == Len(app.startup)
       IN  IF n = 0
           THEN UNCHANGED <<app, panicked, writes>>
           ELSE IF ~app.framepace_settings.present
           THEN panicked' = TRUE /\ UNCHANGED <<app, writes>>
           ELSE /\ \E i \in 1..n :
                     app' = [app EXCEPT !.framepace_settings.limiter =
                                Limiter_from_framerate(app.startup[i].max_fps)]
                /\ writes' = writes + n
                /\ UNCHANGED panicked
    /\ UNCHANGED <<last, nbuilds, engaged, target_os>>
    /\ UNCHANGED cfgvars

Next ==
    \/ CallerAddDefaultPlugins
    \/ CallerAddFramepacePlugin
    \/ \E self \in QuickResponsePlugin : Build(self)
    \/ RunStartup

Spec == Init /\ [][Next]_vars

\* ================================================================= claims

\* C1: window_plugin() gives the primary window the present mode of the table:
\* FastVsync and PowerSaving give Mailbox on Windows and Linux and AutoNoVsync on
\* macOS and any other OS, Immediate gives Immediate, AutoNoVsync gives
\* AutoNoVsync, None(_) gives the default window configuration; nothing but the
\* variant tag and the OS enters the result.
C1_PresentModeTable ==
    op = "window_plugin" =>
        LET tag == recv.mode.tag
            vsync == IF target_os \in {"windows", "linux"} THEN "Mailbox" ELSE "AutoNoVsync"
        IN  /\ tag \in {"FastVsync", "PowerSaving"} =>
                  window_pl.primary_window.present_mode = vsync
            /\ tag = "Immediate" => window_pl.primary_window.present_mode = "Immediate"
            /\ tag = "AutoNoVsync" => window_pl.primary_window.present_mode = "AutoNoVsync"
            /\ tag = "None" => window_pl = WindowPlugin_default

C1_Witness ==
    /\ op = "window_plugin"
    /\ target_os = "macos"
    /\ recv.mode.tag = "PowerSaving"
    /\ recv.no_framepace_for_test
    /\ ~recv.mode.params.auto_init_default_plugins
    /\ window_pl.primary_window.present_mode = "AutoNoVsync"

\* C2: after a build() on an application in which FramepacePlugin was not
\* registered beforehand, FramepacePlugin is registered if and only if the mode
\* is not None(_) and the test flag is clear.
C2_LimiterEngagement ==
    (last.built /\ ~last.framepace_before) =>
        (app.plugins.FramepacePlugin > 0
            <=> (last.self.mode.tag # "None" /\ ~last.self.no_framepace_for_test))

C2_Witness ==
    /\ last.built
    /\ ~last.framepace_before
    /\ last.self.mode.tag = "PowerSaving"
    /\ ~last.self.no_framepace_for_test
    /\ app.plugins.FramepacePlugin = 1
    /\ app.framepace_settings.present

\* C3: whatever the sequence of build() calls, and whether or not the caller
\* registered FramepacePlugin first, FramepacePlugin is registered at most once:
\* a build() that finds it registered does not register it again.
C3_SingleRegistration ==
    /\ app.plugins.FramepacePlugin <= 1
    /\ (last.built /\ last.framepace_before) =>
          \A i \in 1..Len(last.trace) : last.trace[i] # "add_plugins(FramepacePlugin)"

C3_Witness ==
    /\ nbuilds = 2
    /\ engaged = 2
    /\ last.framepace_before
    /\ app.plugins.FramepacePlugin = 1
    /\ Len(app.startup) = 2

\* C4: in a build() of a non-None mode with auto_init_default_plugins set, the
\* event-loop settings are inserted before the host default subsystems are
\* installed.
C4_SettingsBeforeDefaults ==
    (/\ last.built
     /\ last.self.mode.tag # "None"
     /\ last.self.mode.params.auto_init_default_plugins) =>
        /\ \E j \in 1..Len(last.trace) : last.trace[j] = "add_plugins(DefaultPlugins)"
        /\ \A j \in 1..Len(last.trace) :
              last.trace[j] = "add_plugins(DefaultPlugins)" =>
                  \E i \in 1..(j - 1) : last.trace[i] = "insert_resource(WinitSettings)"

C4_Witness ==
    /\ last.built
    /\ last.self.mode.tag = "PowerSaving"
    /\ last.self.mode.params.auto_init_default_plugins
    /\ Len(last.trace) >= 2
    /\ last.trace[1] = "insert_resource(WinitSettings)"
    /\ last.trace[2] = "add_plugins(DefaultPlugins)"

\* C5: build() of None(b) never inserts event-loop settings, never registers
\* FramepacePlugin and never registers a startup system; with b false it leaves
\* the application unchanged, with b true it installs the host defaults and
\* does nothing else.
C5_NonePassthrough ==
    [][(nbuilds' = nbuilds + 1 /\ last'.self.mode.tag = "None") =>
          /\ app'.winit_settings = app.winit_settings
          /\ app'.plugins.FramepacePlugin = app.plugins.FramepacePlugin
          /\ app'.framepace_settings = app.framepace_settings
          /\ app'.startup = app.startup
          /\ IF last'.self.mode.enabled
             THEN /\ app'.plugins.DefaultPlugins = app.plugins.DefaultPlugins + 1
                  /\ last'.trace = <<"add_plugins(DefaultPlugins)">>
             ELSE /\ app' = app
                  /\ last'.trace = <<>>]_vars

C5_Witness ==
    /\ last.built
    /\ last.self = none(TRUE)
    /\ ~last.framepace_before
    /\ app.plugins.DefaultPlugins = 1
    /\ app.plugins.FramepacePlugin = 0
    /\ app.startup = <<>>
    /\ ~app.winit_settings.present

\* C6: the event-loop settings build() inserts: for FastVsync, Immediate and
\* AutoNoVsync the focused and the unfocused mode are both reactive low-power
\* with the same wait, within a nanosecond of 1 / base_fps; for PowerSaving the
\* desktop-application preset; for None(_) nothing is inserted.
C6_CadenceMapping ==
    last.built =>
        LET tag == last.self.mode.tag
            ws  == app.winit_settings
            inserted == \E i \in 1..Len(last.trace) :
                            last.trace[i] = "insert_resource(WinitSettings)"
        IN  /\ tag \in {"FastVsync", "Immediate", "AutoNoVsync"} =>
                  LET base_fps == last.self.mode.params.base_fps
                      err == ws.focused_mode.wait.nanos * base_fps - 1000000000
                  IN  /\ inserted
                      /\ ws.present
                      /\ ws.focused_mode.kind = "ReactiveLowPower"
                      /\ ws.unfocused_mode = ws.focused_mode
                      /\ ws.focused_mode.wait.secs = 0
                      /\ err < base_fps
                      /\ -err < base_fps
            /\ tag = "PowerSaving" => (inserted /\ ws = WinitSettings_desktop_app)
            /\ tag = "None" => ~inserted

C6_Witness ==
    /\ last.built
    /\ last.self.mode.tag = "Immediate"
    /\ last.self.mode.params.base_fps = 60
    /\ last.self.mode.params.max_fps = 120
    /\ app.winit_settings.focused_mode = ReactiveLowPower([secs |-> 0, nanos |-> 16666667])
    /\ app.winit_settings.unfocused_mode = ReactiveLowPower([secs |-> 0, nanos |-> 16666667])

\* C7: a build() of a non-None mode with the test flag clear registers a startup
\* system carrying the mode's max_fps, and once the Startup schedule of an
\* application built once has run, the limiter is a manual one whose frame time
\* is within a nanosecond of 1 / max_fps.
C7_CapIsMaxFps ==
    (/\ last.built
     /\ last.self.mode.tag # "None"
     /\ ~last.self.no_framepace_for_test) =>
        LET max_fps == last.self.mode.params.max_fps
            n       == Len(app.startup)
            lim     == app.framepace_settings.limiter
            err     == lim.frametime.nanos * max_fps - 1000000000
        IN  /\ n > 0
            /\ app.startup[n].max_fps = max_fps
            /\ (started /\ nbuilds = 1) =>
                  /\ lim.kind = "Manual"
                  /\ lim.frametime.secs = 0
                  /\ err < max_fps
                  /\ -err < max_fps

C7_Witness ==
    /\ started
    /\ nbuilds = 1
    /\ last.self.mode.tag = "FastVsync"
    /\ last.self.mode.params.base_fps = 60
    /\ last.self.mode.params.max_fps = 120
    /\ ~last.self.no_framepace_for_test
    /\ app.framepace_settings.limiter =
          [kind |-> "Manual", frametime |-> [secs |-> 0, nanos |-> 8333333]]

\* C8 as stated: an application built once with a non-None mode has exactly one
\* startup system registered by the plugin, and the limiter configuration is
\* written exactly once.
C8_ExactlyOneHook ==
    (nbuilds = 1 /\ last.self.mode.tag # "None") =>
        /\ Len(app.startup) = 1
        /\ started => writes = 1

\* C8 as amended: build() itself never writes the limiter configuration; each
\* build() with a non-None mode and the test flag clear registers exactly one
\* startup system and every other build() registers none, and the Startup
\* schedule writes the configuration once per registered system.
C8_OneHookPerEngagedBuild ==
    /\ Len(app.startup) = engaged
    /\ ~started => (writes = 0 /\ app.framepace_settings.limiter = Limiter_Auto)
    /\ started => writes = engaged

C8_Witness ==
    /\ started
    /\ nbuilds = 1
    /\ last.self.mode.tag = "AutoNoVsync"
    /\ ~last.self.no_framepace_for_test
    /\ Len(app.startup) = 1
    /\ writes = 1

\* C9: build() of a non-None mode installs the host defaults if and only if
\* auto_init_default_plugins is set, and then with the window configuration
\* window_plugin() returns for the plugin; build() of None(b) installs them if
\* and only if b.
C9_DefaultsFollowFlag ==
    last.built =>
        LET installs == {i \in 1..Len(last.trace) :
                            last.trace[i] = "add_plugins(DefaultPlugins)"}
        IN  IF last.self.mode.tag = "None"
            THEN (installs # {}) <=> last.self.mode.enabled
            ELSE /\ (installs # {}) <=> last.self.mode.params.auto_init_default_plugins
                 /\ installs # {} =>
                       /\ Cardinality(installs) = 1
                       /\ app.window = window_plugin(last.self, target_os)

C9_Witness ==
    /\ last.built
    /\ target_os = "linux"
    /\ last.self.mode.tag = "FastVsync"
    /\ last.self.mode.params.auto_init_default_plugins
    /\ app.plugins.DefaultPlugins = 1
    /\ app.window = Window("Mailbox")

\* C10: with_no_default_plugins() applied to its own result gives that result
\* again, mode and test flag included.
C10_Idempotent ==
    op = "with_no_default_plugins" => with_no_default_plugins(pl) = pl

C10_Witness ==
    /\ op = "with_no_default_plugins"
    /\ recv.no_framepace_for_test
    /\ recv.mode.tag = "FastVsync"
    /\ recv.mode.params.auto_init_default_plugins
    /\ pl # recv
    /\ with_no_default_plugins(pl) = pl

\* C11: with_no_default_plugins() keeps the variant and its rates and clears
\* auto_init_default_plugins: FastVsync, Immediate and AutoNoVsync keep base_fps
\* and max_fps, PowerSaving keeps max_fps, and None(b) becomes None(false) for
\* either b.
C11_ParametersPreserved ==
    op = "with_no_default_plugins" =>
        LET tag == recv.mode.tag
        IN  /\ pl.mode.tag = tag
            /\ tag \in {"FastVsync", "Immediate", "AutoNoVsync"} =>
                  /\ pl.mode.params.base_fps = recv.mode.params.base_fps
                  /\ pl.mode.params.max_fps = recv.mode.params.max_fps
                  /\ ~pl.mode.params.auto_init_default_plugins
            /\ tag = "PowerSaving" =>
                  /\ pl.mode.params.max_fps = recv.mode.params.max_fps
                  /\ ~pl.mode.params.auto_init_default_plugins
            /\ tag = "None" => pl.mode = None(FALSE)

C11_Witness ==
    /\ op = "with_no_default_plugins"
    /\ recv.mode.tag = "Immediate"
    /\ recv.mode.params.base_fps = 60
    /\ recv.mode.params.max_fps = 120
    /\ recv.mode.params.auto_init_default_plugins
    /\ pl.mode.tag = "Immediate"
    /\ pl.mode.params.base_fps = 60
    /\ pl.mode.params.max_fps = 120
    /\ ~pl.mode.params.auto_init_default_plugins

\* C12: every constructor gives the documented configuration with the test
\* flag clear: default() is FastVsync(60, 120, true); fast_vsync, immediate and
\* auto_no_vsync give their own variant with base_fps and max_fps in argument
\* order and auto_init_default_plugins set; power_saving(m) gives PowerSaving
\* with max_fps m and auto_init_default_plugins set; none(b) gives None(b);
\* new(mode) stores mode as it is.
C12_Constructors ==
    LET own == [fast_vsync |-> "FastVsync", immediate |-> "Immediate",
                auto_no_vsync |-> "AutoNoVsync"]
    IN  /\ op \in {"default", "new", "power_saving", "fast_vsync", "immediate",
                   "auto_no_vsync", "none"} => ~pl.no_framepace_for_test
        /\ op = "default" =>
              /\ pl.mode.tag = "FastVsync"
              /\ pl.mode.params.base_fps = 60
              /\ pl.mode.params.max_fps = 120
              /\ pl.mode.params.auto_init_default_plugins
        /\ op \in {"fast_vsync", "immediate", "auto_no_vsync"} =>
              /\ pl.mode.tag = own[op]
              /\ pl.mode.params.base_fps = args[1]
              /\ pl.mode.params.max_fps = args[2]
              /\ pl.mode.params.auto_init_default_plugins
        /\ op = "power_saving" =>
              /\ pl.mode.tag = "PowerSaving"
              /\ pl.mode.params.max_fps = args[1]
              /\ pl.mode.params.auto_init_default_plugins
        /\ op = "none" => (pl.mode.tag = "None" /\ pl.mode.enabled = args[1])
        /\ op = "new" => pl.mode = args[1]

C12_Witness ==
    /\ op = "immediate"
    /\ args = <<60, 120>>
    /\ recv.no_framepace_for_test
    /\ pl.mode.tag = "Immediate"
    /\ pl.mode.params.base_fps = 60
    /\ pl.mode.params.max_fps = 120
    /\ ~pl.no_framepace_for_test

\* C13: with_no_default_plugins() carries the test flag of its receiver over
\* to the result (so that it commutes with with_no_framepace_for_test()).
C13_FlagCarriedOver ==
    op = "with_no_default_plugins" =>
        pl.no_framepace_for_test = recv.no_framepace_for_test

\* C14: whenever a startup system of the plugin is registered on the
\* application, FramepacePlugin is registered and FramepaceSettings exists, so
\* no startup system runs without the resource it writes.
C14_HookImpliesLimiter ==
    /\ Len(app.startup) > 0 =>
          (app.plugins.FramepacePlugin > 0 /\ app.framepace_settings.present)
    /\ ~panicked

C14_Witness ==
    /\ started
    /\ ~panicked
    /\ nbuilds = 2
    /\ Len(app.startup) = 1
    /\ last.self.no_framepace_for_test
    /\ last.self.mode.tag # "None"
    /\ app.plugins.FramepacePlugin = 1
    /\ writes = 1

\* C15: no unreachable!() arm of build() is ever taken: control reaches the
\* base_fps match only for FastVsync, Immediate and AutoNoVsync, and the max_fps
\* and auto_init_default_plugins matches only for non-None modes (and for every
\* one of those), because None(false) and None(true) return first.
C15_NoUnreachableArm ==
    last.built =>
        LET tag == last.self.mode.tag
        IN  /\ ~last.unreachable
            /\ "base_fps" \in last.reached
                  <=> tag \in {"FastVsync", "Immediate", "AutoNoVsync"}
            /\ "max_fps" \in last.reached <=> tag # "None"
            /\ "auto_init_default_plugins" \in last.reached <=> tag # "None"

C15_Witness ==
    /\ last.built
    /\ last.self.mode.tag = "PowerSaving"
    /\ last.self.no_framepace_for_test
    /\ last.reached = {"max_fps", "auto_init_default_plugins"}
    /\ ~last.unreachable
    /\ nbuilds = 2

====
